---- MODULE Spec2Model ----
(***************************************************************************)
(* Model of images/ubuntu/scripts/helpers/dotnet-install.py: version      *)
(* parsing and rendering, the NuGet normalisation, the tag resolvers and  *)
(* the --tag path of install_dotnet (reconciliation of the IBM release    *)
(* catalog with the NuGet version set).                                   *)
(*                                                                         *)
(* Strings are TLA+ strings; a character is a string of length one.       *)
(* Python indices are kept 0-based in the state (idx, offset, i); the     *)
(* element at Python index i of a list a is a[i + 1].                     *)
(* A call either returns a value or raises: Return(x) / Raise(e).         *)
(***************************************************************************)
EXTENDS Integers, Sequences, FiniteSets, TLC

VARIABLES
    op,                  \* the function being run
    pc,                  \* position in the function being run
    all_tags,            \* tag_name of every release, in catalog order
    tag,                 \* the caller's string (--tag, --filter, tag_input, input_tag)
    nuget_set,           \* set(get_nuget_versions(NUGET_PACKAGE))
    requested_version,   \* install_dotnet: parse_version(tag.lstrip("v"))
    ibm_parsed,          \* install_dotnet: same-major versions, ascending
    version_to_tag_map,  \* install_dotnet: Version -> tag_name
    idx,                 \* install_dotnet: bisect_left(ibm_parsed, requested_version)
    offset,              \* install_dotnet: outer loop variable
    direction,           \* install_dotnet: inner loop variable (1, then -1)
    visited,             \* install_dotnet: indices i tested by is_version_in_nuget, in order
    parsed,              \* parse then render: the Version parsed from tag
    chosen,              \* install_dotnet: chosen tag, None until found
    echo,                \* messages written by typer.echo, in order
    outcome              \* how the operation ended: Return(x) / Raise(e), Running before

vars == <<op, pc, all_tags, tag, nuget_set, requested_version, ibm_parsed,
          version_to_tag_map, idx, offset, direction, visited, parsed, chosen, echo, outcome>>

----------------------------------------------------------------------------
(* Bounds of the model *)

MaxTags == 3        \* longest catalog drawn
MaxBuildParts == 2  \* longest build tail of a drawn full-pattern string

----------------------------------------------------------------------------
(* Results of calls *)

None == "None"
Running == [kind |-> "running"]
Return(x) == [kind |-> "return", value |-> x]
Raise(e) == [kind |-> "raise", value |-> e]
Returned(r) == r.kind = "return"
Raised(r, e) == r.kind = "raise" /\ r.value = e

----------------------------------------------------------------------------
(* Python string primitives *)

DigitChars == <<"0", "1", "2", "3", "4", "5", "6", "7", "8", "9">>

\* s[i - 1], or "" past either end
CharAt(s, i) == IF 1 <= i /\ i <= Len(s) THEN SubSeq(s, i, i) ELSE ""

IsDigit(c) == \E d \in 1..10 : DigitChars[d] = c

DigitValue(c) == (CHOOSE d \in 1..10 : DigitChars[d] = c) - 1

StartsWith(s, p) == Len(p) <= Len(s) /\ SubSeq(s, 1, Len(p)) = p

\* str.lstrip("v"): every leading "v" is removed
RECURSIVE LStripV(_)
LStripV(s) == IF Len(s) > 0 /\ CharAt(s, 1) = "v" THEN LStripV(Tail(s)) ELSE s

\* 1-based position of the first occurrence of character c in s, 0 if none
RECURSIVE FindFrom(_, _, _)
FindFrom(s, c, i) ==
    IF i > Len(s) THEN 0
    ELSE IF CharAt(s, i) = c THEN i
    ELSE FindFrom(s, c, i + 1)

Find(s, c) == FindFrom(s, c, 1)

\* str.partition(c): <<head, tail>> around the first c (the separator is dropped)
Partition(s, c) ==
    LET p == Find(s, c)
    IN  IF p = 0 THEN <<s, "">>
        ELSE <<SubSeq(s, 1, p - 1), SubSeq(s, p + 1, Len(s))>>

\* str.split(c)
RECURSIVE Split(_, _)
Split(s, c) ==
    LET p == Find(s, c)
    IN  IF p = 0 THEN <<s>>
        ELSE <<SubSeq(s, 1, p - 1)>> \o Split(SubSeq(s, p + 1, Len(s)), c)

\* c.join(parts)
RECURSIVE Join(_, _)
Join(parts, c) ==
    IF Len(parts) = 0 THEN ""
    ELSE IF Len(parts) = 1 THEN parts[1]
    ELSE parts[1] \o c \o Join(Tail(parts), c)

\* int(s) succeeds on a non-empty run of decimal digits (the strings drawn
\* here hold no sign, blank or underscore)
IntOk(s) == Len(s) > 0 /\ \A i \in 1..Len(s) : IsDigit(CharAt(s, i))

RECURSIVE int(_)
int(s) ==
    IF Len(s) = 0 THEN 0
    ELSE 10 * int(SubSeq(s, 1, Len(s) - 1)) + DigitValue(CharAt(s, Len(s)))

\* str(n) for n >= 0
RECURSIVE Str(_)
Str(n) == IF n < 10 THEN DigitChars[n + 1] ELSE Str(n \div 10) \o DigitChars[(n % 10) + 1]

\* length of the longest prefix of s[i..] whose characters satisfy the class:
\* digitsOnly for \d, otherwise [\d.]
RECURSIVE RunLen(_, _, _)
RunLen(s, i, digitsOnly) ==
    IF i > Len(s) THEN 0
    ELSE IF IsDigit(CharAt(s, i)) \/ (~digitsOnly /\ CharAt(s, i) = ".")
         THEN 1 + RunLen(s, i + 1, digitsOnly)
         ELSE 0

----------------------------------------------------------------------------
(* Version and parse_version *)

Version(major, minor, patch, stage_priority, stage_number, build) ==
    [major |-> major, minor |-> minor, patch |-> patch,
     stage_priority |-> stage_priority, stage_number |-> stage_number,
     build |-> build]

Stages == <<"alpha", "preview", "rc", "rtm">>

\* stage_priority_map.get(stage, -1)
stage_priority_map(stage) ==
    IF stage = None THEN 4
    ELSE IF \E p \in 1..4 : Stages[p] = stage
         THEN (CHOOSE p \in 1..4 : Stages[p] = stage) - 1
         ELSE -1

\* the alternative of (alpha|preview|rc|rtm) that matches at the start of
\* suffix, None if none does
StageAt(suffix) ==
    IF \E p \in 1..4 : StartsWith(suffix, Stages[p])
    THEN Stages[CHOOSE p \in 1..4 : StartsWith(suffix, Stages[p])]
    ELSE None

\* re.match(r"(alpha|preview|rc|rtm)\.(\d+)\.([\d.]+)", suffix):
\* <<group 1, group 2, group 3>>, or <<>> when there is no match
full_match(suffix) ==
    LET stage == StageAt(suffix)
        p     == Len(stage) + 1                \* position of the first "\."
        n     == RunLen(suffix, p + 1, TRUE)   \* greedy \d+
        q     == p + 1 + n                     \* position of the second "\."
        m     == RunLen(suffix, q + 1, FALSE)  \* greedy [\d.]+
    IN  IF /\ stage # None
           /\ CharAt(suffix, p) = "."
           /\ n >= 1
           /\ CharAt(suffix, q) = "."
           /\ m >= 1
        THEN <<stage, SubSeq(suffix, p + 1, p + n), SubSeq(suffix, q + 1, q + m)>>
        ELSE <<>>

\* re.match(r"(alpha|preview|rc|rtm)\.([\d.]+)", suffix): <<group 1, group 2>> or <<>>
simple_match(suffix) ==
    LET stage == StageAt(suffix)
        p     == Len(stage) + 1
        m     == RunLen(suffix, p + 1, FALSE)
    IN  IF stage # None /\ CharAt(suffix, p) = "." /\ m >= 1
        THEN <<stage, SubSeq(suffix, p + 1, p + m)>>
        ELSE <<>>

\* tuple(map(int, text.split("."))) succeeds
BuildOk(text) == \A i \in 1..Len(Split(text, ".")) : IntOk(Split(text, ".")[i])

BuildOf(text) == [i \in 1..Len(Split(text, ".")) |-> int(Split(text, ".")[i])]

parse_version(t) ==
    LET stripped  == LStripV(t)
        base_part == Partition(stripped, "-")[1]
        suffix    == Partition(stripped, "-")[2]
        parts     == Split(base_part, ".")
        full      == full_match(suffix)
        simple    == simple_match(suffix)
    IN  IF Len(parts) < 3 \/ \E i \in 1..3 : ~IntOk(parts[i])
        THEN Raise("ValueError")
        ELSE IF suffix = ""
        THEN Return(Version(int(parts[1]), int(parts[2]), int(parts[3]),
                            stage_priority_map(None), 0, <<>>))
        ELSE IF full # <<>>
        THEN IF BuildOk(full[3])
             THEN Return(Version(int(parts[1]), int(parts[2]), int(parts[3]),
                                 stage_priority_map(full[1]), int(full[2]),
                                 BuildOf(full[3])))
             ELSE Raise("ValueError")
        ELSE IF simple # <<>>
        THEN IF BuildOk(simple[2])
             THEN Return(Version(int(parts[1]), int(parts[2]), int(parts[3]),
                                 stage_priority_map(simple[1]), 0,
                                 BuildOf(simple[2])))
             ELSE Raise("ValueError")
        ELSE Return(Version(int(parts[1]), int(parts[2]), int(parts[3]),
                            stage_priority_map("unknown"), 0, <<>>))

\* ".".join(str(x) for x in v.build)
BuildText(build) == Join([i \in 1..Len(build) |-> Str(build[i])], ".")

\* the suffix table {0: "alpha", 1: "preview", 2: "rc", 3: "rtm"}[p]
SuffixName(p) == IF p \in 0..3 THEN Return(Stages[p + 1]) ELSE Raise("KeyError")

\* version_to_string with the stage number left out of the suffix
version_to_string_without_stage_number(v) ==
    LET base == Str(v.major) \o "." \o Str(v.minor) \o "." \o Str(v.patch)
    IN  IF v.stage_priority < 4
        THEN IF Returned(SuffixName(v.stage_priority))
             THEN Return(base \o "-" \o SuffixName(v.stage_priority).value \o "."
                         \o BuildText(v.build))
             ELSE Raise("KeyError")
        ELSE Return(base)

version_to_string(v) ==
    LET base == Str(v.major) \o "." \o Str(v.minor) \o "." \o Str(v.patch)
    IN  IF v.stage_priority < 4
        THEN IF Returned(SuffixName(v.stage_priority))
             THEN Return(base \o "-" \o SuffixName(v.stage_priority).value \o "."
                         \o Str(v.stage_number) \o "." \o BuildText(v.build))
             ELSE Raise("KeyError")
        ELSE Return(base)

\* normalized_version_for_nuget with the patch kept
normalized_version_with_patch(v) == version_to_string(v)

normalized_version_for_nuget(v) ==
    LET base == Str(v.major) \o "." \o Str(v.minor) \o ".0"
    IN  IF v.stage_priority < 4
        THEN IF Returned(SuffixName(v.stage_priority))
             THEN Return(base \o "-" \o SuffixName(v.stage_priority).value \o "."
                         \o Str(v.stage_number) \o "." \o BuildText(v.build))
             ELSE Raise("KeyError")
        ELSE Return(base)

\* is_version_in_nuget looking up major.minor.0 alone, whatever the stage
is_version_in_nuget_base_only(nuget_versions, version) ==
    Return((Str(version.major) \o "." \o Str(version.minor) \o ".0") \in nuget_versions)

is_version_in_nuget(nuget_versions, version) ==
    IF Returned(normalized_version_for_nuget(version))
    THEN Return(normalized_version_for_nuget(version).value \in nuget_versions)
    ELSE Raise("KeyError")

----------------------------------------------------------------------------
(* Ordering of Version tuples, list.sort() and bisect.bisect_left *)

\* comparison of two tuples of int: the first difference decides, a proper
\* prefix is smaller
RECURSIVE TupleLess(_, _)
TupleLess(x, y) ==
    IF Len(y) = 0 THEN FALSE
    ELSE IF Len(x) = 0 THEN TRUE
    ELSE IF x[1] # y[1] THEN x[1] < y[1]
    ELSE TupleLess(Tail(x), Tail(y))

\* a < b on Version (a NamedTuple compares as a tuple of its fields)
VersionLess(a, b) ==
    LET ha == <<a.major, a.minor, a.patch, a.stage_priority, a.stage_number>>
        hb == <<b.major, b.minor, b.patch, b.stage_priority, b.stage_number>>
    IN  IF ha # hb THEN TupleLess(ha, hb) ELSE TupleLess(a.build, b.build)

\* list.sort() of a list of Version: ascending
RECURSIVE InsertAscending(_, _)
InsertAscending(sorted, v) ==
    IF Len(sorted) = 0 THEN <<v>>
    ELSE IF VersionLess(v, sorted[1]) THEN <<v>> \o sorted
    ELSE <<sorted[1]>> \o InsertAscending(Tail(sorted), v)

\* the list left as it is
NotSorted(list) == list

RECURSIVE SortAscending(_)
SortAscending(list) ==
    IF Len(list) = 0 THEN <<>>
    ELSE InsertAscending(SortAscending(SubSeq(list, 1, Len(list) - 1)), list[Len(list)])

\* bisect.bisect_left(a, x, lo, hi): 0-based insertion index
RECURSIVE BisectLeftBetween(_, _, _, _)
BisectLeftBetween(a, x, lo, hi) ==
    IF lo >= hi THEN lo
    ELSE LET mid == (lo + hi) \div 2
         IN  IF VersionLess(a[mid + 1], x)
             THEN BisectLeftBetween(a, x, mid + 1, hi)
             ELSE BisectLeftBetween(a, x, lo, mid)

\* bisect.bisect_right: the insertion index after the elements equal to x
RECURSIVE BisectRightBetween(_, _, _, _)
BisectRightBetween(a, x, lo, hi) ==
    IF lo >= hi THEN lo
    ELSE LET mid == (lo + hi) \div 2
         IN  IF VersionLess(x, a[mid + 1])
             THEN BisectRightBetween(a, x, lo, mid)
             ELSE BisectRightBetween(a, x, mid + 1, hi)

bisect_right(a, x) == BisectRightBetween(a, x, 0, Len(a))

bisect_left(a, x) == BisectLeftBetween(a, x, 0, Len(a))

\* d[k] = v on a dict held as a function
DictSet(d, k, v) == [x \in DOMAIN d \cup {k} |-> IF x = k THEN v ELSE d[x]]

EmptyDict == [x \in {} |-> None]

----------------------------------------------------------------------------
(* install_dotnet, the --tag path *)

\* the loop over all_tags: <<ibm_parsed, version_to_tag_map>> after the
\* first k tags
RECURSIVE CollectSameMajor(_, _, _)
CollectSameMajor(tags, requested, k) ==
    IF k = 0 THEN <<(<<>>), EmptyDict>>
    ELSE LET before == CollectSameMajor(tags, requested, k - 1)
             r      == parse_version(tags[k])
         IN  IF Returned(r) /\ r.value.major = requested.major
             THEN <<Append(before[1], r.value), DictSet(before[2], r.value, tags[k])>>
             ELSE before

Echo(text, arg) == [text |-> text, arg |-> arg]

InstallConstant ==
    UNCHANGED <<op, all_tags, tag, nuget_set, parsed>>

\* requested_version = parse_version(...); the loop over all_tags; the
\* empty check; ibm_parsed.sort(); idx = bisect_left(...); chosen = None
ParseAndCollect ==
    /\ op = "install_dotnet"
    /\ pc = "start"
    /\ tag # ""
    /\ LET r == parse_version(LStripV(tag))
       IN  IF ~Returned(r)
           THEN /\ outcome' = Raise("ValueError")
                /\ pc' = "done"
                /\ UNCHANGED <<requested_version, ibm_parsed, version_to_tag_map, idx, echo>>
           ELSE LET got == CollectSameMajor(all_tags, r.value, Len(all_tags))
                IN  /\ requested_version' = r.value
                    /\ version_to_tag_map' = got[2]
                    /\ IF Len(got[1]) = 0
                       THEN /\ echo' = Append(echo, Echo("No IBM releases match the requested major version.", None))
                            /\ outcome' = Raise("Exit")
                            /\ pc' = "done"
                            /\ ibm_parsed' = got[1]
                            /\ UNCHANGED idx
                       ELSE /\ ibm_parsed' = SortAscending(got[1])
                            /\ idx' = bisect_left(SortAscending(got[1]), r.value)
                            /\ pc' = "exact"
                            /\ UNCHANGED <<echo, outcome>>
    /\ UNCHANGED <<offset, direction, visited, chosen>>
    /\ InstallConstant

\* the exact match check
ExactMatch ==
    /\ pc = "exact"
    /\ IF idx < Len(ibm_parsed) /\ ibm_parsed[idx + 1] = requested_version
       THEN LET r == is_version_in_nuget(nuget_set, requested_version)
            IN  IF ~Returned(r)
                THEN /\ outcome' = Raise(r.value)
                     /\ pc' = "done"
                     /\ UNCHANGED chosen
                ELSE IF r.value
                THEN /\ chosen' = version_to_tag_map[requested_version]
                     /\ pc' = "resolved"
                     /\ UNCHANGED outcome
                ELSE /\ pc' = "fallback"
                     /\ UNCHANGED <<chosen, outcome>>
       ELSE /\ pc' = "fallback"
            /\ UNCHANGED <<chosen, outcome>>
    /\ UNCHANGED <<requested_version, ibm_parsed, version_to_tag_map, idx,
                   offset, direction, visited, echo>>
    /\ InstallConstant

\* for direction in [1, -1]
NextDirection(d) == IF d = 1 THEN -1 ELSE 1

\* the index tried with the directions taken in the order -1, 1
CandidateIndexDownFirst(base, off, dir) == base - dir * off

\* the index the fallback tries
CandidateIndex(base, off, dir) == base + dir * off

\* for offset in range(len(ibm_parsed)): the loop runs while this holds
InRange(off, list) == off < Len(list)

\* one pass of the body of the inner loop, for the current offset and direction
FallbackStep ==
    /\ pc = "fallback"
    /\ InRange(offset, ibm_parsed)
    /\ LET i        == CandidateIndex(idx, offset, direction)
           continue == /\ direction' = NextDirection(direction)
                       /\ offset' = IF direction = 1 THEN offset ELSE offset + 1
                       /\ UNCHANGED <<pc, chosen, echo, outcome>>
       IN  IF i < 0 \/ i >= Len(ibm_parsed)
           THEN continue /\ UNCHANGED visited
           ELSE LET candidate == ibm_parsed[i + 1]
                    r         == is_version_in_nuget(nuget_set, candidate)
                IN  IF candidate.major # requested_version.major
                    THEN continue /\ UNCHANGED visited
                    ELSE /\ visited' = Append(visited, i)
                         /\ IF ~Returned(r)
                            THEN /\ outcome' = Raise(r.value)
                                 /\ pc' = "done"
                                 /\ UNCHANGED <<offset, direction, chosen, echo>>
                            ELSE IF r.value
                            THEN /\ chosen' = version_to_tag_map[candidate]
                                 /\ echo' = Append(echo, Echo("Using nearest IBM version", version_to_tag_map[candidate]))
                                 /\ pc' = "resolved"
                                 /\ UNCHANGED <<offset, direction, outcome>>
                            ELSE continue
    /\ UNCHANGED <<requested_version, ibm_parsed, version_to_tag_map, idx>>
    /\ InstallConstant

\* the loops end with chosen still None: report and exit
NoCompatibleVersion ==
    /\ pc = "fallback"
    /\ ~InRange(offset, ibm_parsed)
    /\ echo' = Append(echo, Echo("No matching IBM+NuGet compatible version found for", tag))
    /\ outcome' = Raise("Exit")
    /\ pc' = "done"
    /\ UNCHANGED <<requested_version, ibm_parsed, version_to_tag_map, idx,
                   offset, direction, visited, chosen>>
    /\ InstallConstant

\* selected_tag = chosen
Resolved ==
    /\ pc = "resolved"
    /\ echo' = Append(echo, Echo("Resolved tag", chosen))
    /\ outcome' = Return(chosen)
    /\ pc' = "done"
    /\ UNCHANGED <<requested_version, ibm_parsed, version_to_tag_map, idx,
                   offset, direction, visited, chosen>>
    /\ InstallConstant

----------------------------------------------------------------------------
(* Inputs drawn *)

\* every subsequence of list (the order of list is kept)
RECURSIVE SubSequences(_)
SubSequences(list) ==
    IF Len(list) = 0 THEN {<<>>}
    ELSE LET rest == SubSequences(Tail(list))
         IN  rest \cup {<<list[1]>> \o s : s \in rest}

Reverse(list) == [i \in 1..Len(list) |-> list[Len(list) + 1 - i]]

\* tag names of the drawn release catalogs
IbmTagNames ==
    <<"9.0.100", "9.0.101", "9.0.102", "v9.0.100", "v9.1.100", "v9.2.100",
      "v9.0.100-preview.7.25351.106", "v9.0.101-beta.1", "v8.0.500", "latest">>

\* catalogs: at most MaxTags names, in the order above or in the reverse order
Catalogs ==
    {s \in SubSequences(IbmTagNames) \cup SubSequences(Reverse(IbmTagNames)) :
        Len(s) <= MaxTags}

\* values of --tag
RequestedTags ==
    {"9.0.100", "v9.0.101", "9.0.200", "9.0.101-beta.1", "9.0.100-preview.7.25351.106",
     "10.0.100", "9.0"}

\* version sets published by NuGet
NugetSets ==
    {{}, {"9.0.0"}, {"9.1.0"}, {"9.0.0-preview.7.25351.106"},
     {"9.0.0", "9.2.0", "8.0.0"}}

\* the state a function starts in, whatever its arguments
Fresh ==
    /\ pc = "start"
    /\ requested_version = Running
    /\ ibm_parsed = <<>>
    /\ version_to_tag_map = EmptyDict
    /\ idx = 0
    /\ offset = 0
    /\ direction = 1
    /\ visited = <<>>
    /\ parsed = Running
    /\ chosen = None
    /\ echo = <<>>
    /\ outcome = Running

InitInstall ==
    /\ op = "install_dotnet"
    /\ all_tags \in Catalogs
    /\ tag \in RequestedTags
    /\ nuget_set \in NugetSets
    /\ Fresh

NextInstall ==
    \/ ParseAndCollect
    \/ ExactMatch
    \/ FallbackStep
    \/ NoCompatibleVersion
    \/ Resolved

SpecInstall == InitInstall /\ [][NextInstall]_vars

----------------------------------------------------------------------------
(* Notions the properties of install_dotnet are stated with *)

Done == pc = "done"

Range(list) == {list[k] : k \in 1..Len(list)}

\* the request parses, and its Version
RequestParses == Returned(parse_version(tag))

Requested == parse_version(tag).value

\* the NormalizedKey of v is defined and is a member of the registry set
KeyInRegistry(v) ==
    /\ Returned(normalized_version_for_nuget(v))
    /\ normalized_version_for_nuget(v).value \in nuget_set

\* name parses to a Version of the requested major whose key is in the registry
Acceptable(name) ==
    /\ Returned(parse_version(name))
    /\ parse_version(name).value.major = Requested.major
    /\ KeyInRegistry(parse_version(name).value)

\* the "using nearest version" warning was written
NearestWarning == \E k \in 1..Len(echo) : echo[k].text = "Using nearest IBM version"

\* the index visited at position p (p = 0, 1, 2, ...) of the order
\* idx+0, idx-0, idx+1, idx-1, idx+2, idx-2, ...
VisitOrder(p) == IF p % 2 = 0 THEN idx + (p \div 2) ELSE idx - (p \div 2)

\* the candidate at Python index i of the same-major list is registry-valid
ValidAt(i) == i >= 0 /\ i < Len(ibm_parsed) /\ KeyInRegistry(ibm_parsed[i + 1])

----------------------------------------------------------------------------
(* Properties of install_dotnet *)

\* C1: whenever install_dotnet returns a tag name, that name is a tag of the
\* catalog whose parsed Version has the requested major and whose
\* NormalizedKey is a member of the registry set.
C1_Soundness ==
    (Done /\ Returned(outcome)) =>
        /\ outcome.value \in Range(all_tags)
        /\ Acceptable(outcome.value)

C1_Witness ==
    Done /\ Returned(outcome) /\ Len(visited) > 1 /\ Len(all_tags) = MaxTags

\* C2: install_dotnet fails with NotFound (exit 1) only when no tag of the
\* catalog has the requested major and a NormalizedKey in the registry set.
C2_Completeness ==
    (Done /\ Raised(outcome, "Exit")) =>
        ~\E name \in Range(all_tags) : Acceptable(name)

\* C3 as stated: with exactly the tags 9.0.100, 9.0.101, 9.0.102 and a
\* registry set holding only the normalized key of 9.0.101, the request
\* 9.0.100 returns 9.0.101 with the nearest-version warning.
C3_NearestExample ==
    ( /\ Done
      /\ Range(all_tags) = {"9.0.100", "9.0.101", "9.0.102"}
      /\ nuget_set = {normalized_version_for_nuget(parse_version("9.0.101").value).value}
      /\ tag = "9.0.100" )
    => (outcome = Return("9.0.101") /\ NearestWarning)

\* C3 as amended: with those tags and the registry set {"9.0.0"} (the key
\* of 9.0.101, and of 9.0.100 too) the request 9.0.100 returns 9.0.100 with
\* no warning; with the tags 9.0.100, v9.1.100, v9.2.100 and the registry
\* set {"9.1.0"} it returns v9.1.100 with the warning.
C3_NearestExampleAmended ==
    /\ ( /\ Done
         /\ Range(all_tags) = {"9.0.100", "9.0.101", "9.0.102"}
         /\ nuget_set = {"9.0.0"}
         /\ tag = "9.0.100" )
       => (outcome = Return("9.0.100") /\ ~NearestWarning)
    /\ ( /\ Done
         /\ Range(all_tags) = {"9.0.100", "v9.1.100", "v9.2.100"}
         /\ nuget_set = {"9.1.0"}
         /\ tag = "9.0.100" )
       => (outcome = Return("v9.1.100") /\ NearestWarning)

C3_Witness ==
    /\ Done
    /\ Range(all_tags) = {"9.0.100", "v9.1.100", "v9.2.100"}
    /\ nuget_set = {"9.1.0"}
    /\ tag = "9.0.100"
    /\ visited = <<0, 0, 1>>

\* C4: if the requested Version is the Version of some tag and its key is in
\* the registry set, the tag mapped to that Version (the last tag of the
\* catalog that parses to it) is returned and no warning is written; and a
\* returned tag comes with the warning exactly when its Version differs from
\* the requested one.
C4_ExactPriority ==
    (Done /\ RequestParses) =>
        /\ ( /\ \E name \in Range(all_tags) : parse_version(name) = Return(Requested)
             /\ KeyInRegistry(Requested) )
           => /\ Returned(outcome)
              /\ \E k \in 1..Len(all_tags) :
                    /\ all_tags[k] = outcome.value
                    /\ parse_version(all_tags[k]) = Return(Requested)
                    /\ \A m \in (k + 1)..Len(all_tags) :
                          parse_version(all_tags[m]) # Return(Requested)
              /\ ~NearestWarning
        /\ Returned(outcome)
           => (NearestWarning <=> parse_version(outcome.value).value # Requested)

C4_Witness ==
    /\ Done
    /\ Returned(outcome)
    /\ ~NearestWarning
    /\ Cardinality({k \in 1..Len(all_tags) : parse_version(all_tags[k]) = Return(Requested)}) = 2
    /\ Len(ibm_parsed) = MaxTags

\* C9: the returned candidate is the first registry-valid one in the order
\* idx+0, idx-0, idx+1, idx-1, ...: no registry-valid candidate is nearer to
\* idx, and one below idx at distance k is returned only if idx+k is out of
\* bounds or not registry-valid.
C9_SearchOrder ==
    (Done /\ Returned(outcome)) =>
        \E p \in 0..(2 * Len(ibm_parsed)) :
            /\ ValidAt(VisitOrder(p))
            /\ version_to_tag_map[ibm_parsed[VisitOrder(p) + 1]] = outcome.value
            /\ \A q \in 0..(p - 1) : ~ValidAt(VisitOrder(q))
            /\ \A i \in 0..(Len(ibm_parsed) - 1) :
                  ValidAt(i) =>
                      \/ i - idx >= p \div 2
                      \/ idx - i >= p \div 2
            /\ (VisitOrder(p) < idx) => ~ValidAt(idx + (p \div 2))

\* a candidate below idx is returned, the one as far above idx being in
\* bounds and not registry-valid
C9_Witness ==
    /\ Done
    /\ Returned(outcome)
    /\ Len(visited) > 0
    /\ visited[Len(visited)] < idx
    /\ 2 * idx - visited[Len(visited)] < Len(ibm_parsed)

\* C10: for a request that parses, install_dotnet ends only with a returned
\* tag name or with NotFound (exit 1), never with another error.
C10_OutcomeSet ==
    (Done /\ RequestParses) => (Returned(outcome) \/ Raised(outcome, "Exit"))

----------------------------------------------------------------------------
(* resolve_tag, find_closest_version_tag, filter_and_sort_tags *)

\* what a function did: how it ended and what it wrote
Did(result, messages) == [outcome |-> result, echo |-> messages]

\* [t for t in tags if keep(t)] for a set of kept names
RECURSIVE Filter(_, _)
Filter(tags, kept) ==
    IF Len(tags) = 0 THEN <<>>
    ELSE IF tags[1] \in kept THEN <<tags[1]>> \o Filter(Tail(tags), kept)
    ELSE Filter(Tail(tags), kept)

\* insertion of name into a list sorted by Version, highest first; equal
\* Versions keep their order of arrival (sorted is stable, also with reverse)
RECURSIVE InsertDescending(_, _)
InsertDescending(sorted, name) ==
    IF Len(sorted) = 0 THEN <<name>>
    ELSE IF VersionLess(parse_version(sorted[1]).value, parse_version(name).value)
         THEN <<name>> \o sorted
         ELSE <<sorted[1]>> \o InsertDescending(Tail(sorted), name)

RECURSIVE SortDescending(_)
SortDescending(names) ==
    IF Len(names) = 0 THEN <<>>
    ELSE InsertDescending(SortDescending(SubSeq(names, 1, Len(names) - 1)), names[Len(names)])

\* sorted(names, key=parse_version, reverse=True): the key is computed for
\* every element, and an exception of the key function leaves sorted
sorted_by_version_reverse(names) ==
    IF \A k \in 1..Len(names) : Returned(parse_version(names[k]))
    THEN Return(SortDescending(names))
    ELSE Raise("ValueError")

resolve_tag(tag_input, tags) ==
    LET matched        == Filter(tags, {n \in Range(tags) : n = tag_input})
        prefix_matches == Filter(tags, {n \in Range(tags) : StartsWith(n, tag_input)})
        sorted_matches == sorted_by_version_reverse(prefix_matches)
    IN  IF tag_input = "" THEN Did(Return(None), <<>>)
        ELSE IF Len(matched) > 0 THEN Did(Return(matched[1]), <<>>)
        ELSE IF Len(prefix_matches) > 0
        THEN IF Returned(sorted_matches)
             THEN Did(Return(sorted_matches.value[1]),
                      <<Echo("Exact tag not found. Using nearest match", sorted_matches.value[1])>>)
             ELSE Did(sorted_matches, <<>>)
        ELSE Did(Raise("Exit"),
                 <<Echo("No matching or compatible version found for", tag_input)>>)

\* the loop of find_closest_version_tag over all_tags:
\* <<parsed_tags, version_to_tag_map>> after the first k tags
RECURSIVE CollectParsed(_, _)
CollectParsed(tags, k) ==
    IF k = 0 THEN <<(<<>>), EmptyDict>>
    ELSE LET before == CollectParsed(tags, k - 1)
             r      == parse_version(tags[k])
         IN  IF Returned(r)
             THEN <<Append(before[1], r.value), DictSet(before[2], r.value, tags[k])>>
             ELSE before

find_closest_version_tag(tags, input_tag) ==
    LET normalized  == IF StartsWith(input_tag, "v") THEN input_tag ELSE "v" \o input_tag
        got         == CollectParsed(tags, Len(tags))
        parsed_tags == SortAscending(got[1])
        target      == parse_version(normalized)
        index       == bisect_left(parsed_tags, target.value)
    IN  IF ~Returned(target) THEN Did(target, <<>>)
        ELSE IF target.value \in DOMAIN got[2] THEN Did(Return(got[2][target.value]), <<>>)
        ELSE IF index > 0 THEN Did(Return(got[2][parsed_tags[index]]), <<>>)
        ELSE IF index < Len(parsed_tags) THEN Did(Return(got[2][parsed_tags[index + 1]]), <<>>)
        ELSE Did(Raise("Exit"), <<>>)

\* re.IGNORECASE on the characters drawn here
Lower(c) == IF c = "V" THEN "v" ELSE c

\* the pattern (literal characters, "*" for ".*") matches s from position i on
RECURSIVE MatchesAt(_, _, _)
MatchesAt(pattern, s, i) ==
    IF Len(pattern) = 0 THEN TRUE
    ELSE IF CharAt(pattern, 1) = "*"
    THEN \E j \in i..(Len(s) + 1) : MatchesAt(Tail(pattern), s, j)
    ELSE /\ i <= Len(s)
         /\ Lower(CharAt(s, i)) = Lower(CharAt(pattern, 1))
         /\ MatchesAt(Tail(pattern), s, i + 1)

\* re.compile(rf"v?{regex_pattern}", re.IGNORECASE).search(s): the optional
\* "v" may match nothing, so the search succeeds iff the pattern matches at
\* some position
regex_search(pattern, s) == \E i \in 1..(Len(s) + 1) : MatchesAt(pattern, s, i)

filter_and_sort_tags(tags, prefix) ==
    LET named       == Filter(tags, {n \in Range(tags) : n # ""})
        norm_prefix == IF StartsWith(prefix, "v") THEN Tail(prefix) ELSE prefix
        filtered    == IF prefix # ""
                       THEN Filter(named, {n \in Range(named) : regex_search(norm_prefix, n)})
                       ELSE named
    IN  Did(sorted_by_version_reverse(filtered), <<>>)

TagsConstant ==
    UNCHANGED <<op, all_tags, tag, nuget_set, requested_version, ibm_parsed,
                version_to_tag_map, idx, offset, direction, visited, parsed, chosen>>

ResolveTag ==
    /\ op = "resolve_tag"
    /\ pc = "start"
    /\ outcome' = resolve_tag(tag, all_tags).outcome
    /\ echo' = resolve_tag(tag, all_tags).echo
    /\ pc' = "done"
    /\ TagsConstant

FindClosestVersionTag ==
    /\ op = "find_closest_version_tag"
    /\ pc = "start"
    /\ outcome' = find_closest_version_tag(all_tags, tag).outcome
    /\ echo' = find_closest_version_tag(all_tags, tag).echo
    /\ pc' = "done"
    /\ TagsConstant

FilterAndSortTags ==
    /\ op = "filter_and_sort_tags"
    /\ pc = "start"
    /\ outcome' = filter_and_sort_tags(all_tags, tag).outcome
    /\ echo' = filter_and_sort_tags(all_tags, tag).echo
    /\ pc' = "done"
    /\ TagsConstant

\* the caller's string, per function: tag_input, input_tag, prefix
TagInputs ==
    [resolve_tag |-> {"v9.0.100", "9.0.10", "v9", "v9.0.100-", "lat", "7", ""},
     find_closest_version_tag |-> {"9.0.101", "v9.0.200", "8.0.0", "9.0.100-preview.7.25351.106",
                                   "9.0.100-beta.1", "10"},
     filter_and_sort_tags |-> {"", "9.0", "v9", "9.*", "V9.1", "*-preview", "lat", "7"}]

InitTags ==
    /\ all_tags \in Catalogs
    /\ op \in DOMAIN TagInputs
    /\ tag \in TagInputs[op]
    /\ nuget_set = {}
    /\ Fresh

NextTags ==
    \/ ResolveTag
    \/ FindClosestVersionTag
    \/ FilterAndSortTags

SpecTags == InitTags /\ [][NextTags]_vars

----------------------------------------------------------------------------
(* Properties of the tag functions *)

\* the tags of the catalog whose name parses, in catalog order
Parseable(tags) == Filter(tags, {n \in Range(tags) : Returned(parse_version(n))})

\* the same ending: both return the same value, or both raise the same error
SameOutcome(a, b) == a.kind = b.kind /\ a.value = b.value

\* C5: a tag whose name fails to parse is left out and the function still
\* completes, with the result computed from the parseable tags: the filter,
\* the prefix step of resolve_tag and find_closest_version_tag end as they
\* end on the catalog without its unparseable names.
C5_ParseTolerance ==
    Done =>
        /\ op = "filter_and_sort_tags"
           => SameOutcome(outcome, filter_and_sort_tags(Parseable(all_tags), tag).outcome)
        /\ (op = "resolve_tag" /\ tag \notin Range(all_tags))
           => SameOutcome(outcome, resolve_tag(tag, Parseable(all_tags)).outcome)
        /\ op = "find_closest_version_tag"
           => SameOutcome(outcome, find_closest_version_tag(Parseable(all_tags), tag).outcome)

\* the tags whose name starts with the candidate
PrefixMatches == {n \in Range(all_tags) : StartsWith(n, tag)}

ApproximationWarning ==
    \E k \in 1..Len(echo) : echo[k].text = "Exact tag not found. Using nearest match"

\* C6: for a non-empty candidate, resolve_tag returns the tag equal to it
\* with no warning if there is one; otherwise, if some tags start with it,
\* one of them than which no other has a strictly higher Version, with the
\* warning; otherwise it fails with NotFound.
C6_Resolve ==
    (Done /\ op = "resolve_tag" /\ tag # "") =>
        IF tag \in Range(all_tags)
        THEN outcome = Return(tag) /\ ~ApproximationWarning
        ELSE IF PrefixMatches # {}
        THEN /\ Returned(outcome)
             /\ outcome.value \in PrefixMatches
             /\ \A n \in PrefixMatches :
                   (Returned(parse_version(n)) /\ Returned(parse_version(outcome.value)))
                   => ~VersionLess(parse_version(outcome.value).value, parse_version(n).value)
             /\ ApproximationWarning
        ELSE Raised(outcome, "Exit")

\* the Versions of the parseable tags
CatalogVersions ==
    {parse_version(n).value : n \in {m \in Range(all_tags) : Returned(parse_version(m))}}

\* C7: find_closest_version_tag returns a tag of the target's Version if
\* there is one; otherwise a tag of the greatest Version below the target
\* if there is one; otherwise a tag of the smallest Version above it; and
\* it fails with NotFound only when no tag parses.
C7_Closest ==
    (Done /\ op = "find_closest_version_tag" /\ Returned(parse_version(tag))) =>
        LET target == parse_version(tag).value
            below  == {x \in CatalogVersions : VersionLess(x, target)}
            got    == parse_version(outcome.value).value
        IN  IF CatalogVersions = {} THEN Raised(outcome, "Exit")
            ELSE /\ Returned(outcome)
                 /\ outcome.value \in Range(all_tags)
                 /\ Returned(parse_version(outcome.value))
                 /\ IF target \in CatalogVersions THEN got = target
                    ELSE IF below # {}
                    THEN got \in below /\ \A x \in below : ~VersionLess(got, x)
                    ELSE \A x \in CatalogVersions : ~VersionLess(x, got)

\* the target is absent, with tags below and above it
C7_Witness ==
    /\ Done
    /\ op = "find_closest_version_tag"
    /\ Returned(parse_version(tag))
    /\ Returned(outcome)
    /\ parse_version(tag).value \notin CatalogVersions
    /\ \E x \in CatalogVersions : VersionLess(x, parse_version(tag).value)
    /\ \E x \in CatalogVersions : VersionLess(parse_version(tag).value, x)
    /\ Len(all_tags) = MaxTags

----------------------------------------------------------------------------
(* parse_version followed by version_to_string *)

VersionConstant ==
    UNCHANGED <<op, all_tags, tag, nuget_set, requested_version, ibm_parsed,
                version_to_tag_map, idx, offset, direction, visited, chosen, echo>>

ParseVersion ==
    /\ op = "version_to_string"
    /\ pc = "start"
    /\ parsed' = parse_version(tag)
    /\ IF Returned(parse_version(tag))
       THEN pc' = "parsed" /\ UNCHANGED outcome
       ELSE pc' = "done" /\ outcome' = parse_version(tag)
    /\ VersionConstant

VersionToString ==
    /\ op = "version_to_string"
    /\ pc = "parsed"
    /\ outcome' = version_to_string(parsed.value)
    /\ pc' = "done"
    /\ UNCHANGED parsed
    /\ VersionConstant

\* the numerals drawn for each numeric place of the full pattern
BaseTexts == {"9.0.100", "10.0.1", "9.00.1"}

StageNumberTexts == {"0", "7", "12", "07"}

BuildNumberTexts == {"0", "106", "25351", "007"}

\* dot-separated build tails of n numerals
RECURSIVE BuildTails(_)
BuildTails(n) ==
    IF n = 1 THEN BuildNumberTexts
    ELSE {head \o "." \o last : head \in BuildTails(n - 1), last \in BuildNumberTexts}

\* strings of the full pattern [v]major.minor.patch-stage.number.build
FullPatternStrings ==
    {lead \o base \o "-" \o Stages[s] \o "." \o number \o "." \o build :
        lead \in {"", "v"}, base \in BaseTexts, s \in 1..4, number \in StageNumberTexts,
        build \in UNION {BuildTails(n) : n \in 1..MaxBuildParts}}

\* strings of the other shapes parse_version tells apart
OtherStrings ==
    {"9.0.100", "v9.0.100-rc.1", "9.0.100-rtm.24503.15", "9.0.100-beta.1",
     "9.0.100-preview.7.", "9.0", "latest"}

InitVersion ==
    /\ op = "version_to_string"
    /\ tag \in FullPatternStrings \cup OtherStrings
    /\ all_tags = <<>>
    /\ nuget_set = {}
    /\ Fresh

NextVersion ==
    \/ ParseVersion
    \/ VersionToString

SpecVersion == InitVersion /\ [][NextVersion]_vars

\* s without its optional leading "v"
DropV(s) == IF StartsWith(s, "v") THEN Tail(s) ELSE s

\* every numeral of s is written without a leading zero
NoLeadingZeros(s) ==
    LET fields == Split(Partition(DropV(s), "-")[1], ".")
                  \o Tail(Split(Partition(DropV(s), "-")[2], "."))
    IN  \A k \in 1..Len(fields) : Len(fields[k]) = 1 \/ CharAt(fields[k], 1) # "0"

\* C8 as stated: for every string s of the full pattern,
\* version_to_string(parse_version(s)) is s without its leading "v".
C8_RoundTrip ==
    (Done /\ tag \in FullPatternStrings) => outcome = Return(DropV(tag))

\* C8 as amended: the round trip holds for every string of the full pattern
\* whose numerals are written without leading zeros.
C8_RoundTripNoLeadingZeros ==
    (Done /\ tag \in FullPatternStrings /\ NoLeadingZeros(tag))
        => outcome = Return(DropV(tag))

C8_Witness ==
    /\ Done
    /\ tag \in FullPatternStrings
    /\ NoLeadingZeros(tag)
    /\ StartsWith(tag, "v")
    /\ Returned(outcome)
    /\ Len(parsed.value.build) = MaxBuildParts

====
